---- MODULE Spec2Model ----
(***************************************************************************)
(* cdp_neighbor_tree.py: a tree of network devices inferred from a flat    *)
(* map of CDP neighbours.  The model follows the source: the backbone      *)
(* pattern REGEXP_PE_PATTERN, split_list_by_regex, the node registry of    *)
(* NetworkTreeNode, _add_child, the recursive find_neighbors (as an        *)
(* explicit call stack), find_root (a tail call, one step per call) and    *)
(* main.                                                                   *)
(***************************************************************************)
EXTENDS Integers, Sequences, FiniteSets, TLC

VARIABLES
  data,            \* STATIC_DATA: hostname -> sequence of neighbour hostnames
  target,          \* main: target
  pc,              \* main's position: "find_root", "create_root", "find_neighbors", "done"
                   \* ("search", "searched" when the pattern is exercised alone)
  error,           \* "" or the exception that ended the program ("KeyError")
  fr_hostname,     \* find_root: the hostname argument of the current call
  fr_visited,      \* find_root: the shared visited set (hostnames)
  root_hostname,   \* main: root_hostname, the value find_root returned
  nodes,           \* the NetworkTreeNode objects, by object identity 1..Len(nodes)
  existing_nodes,  \* NetworkTreeNode.existing_nodes: hostname -> object
  visited,         \* find_neighbors: the shared visited set (objects)
  stack,           \* find_neighbors: the call stack, innermost call last
  fetched,         \* history: how often find_root fetched each hostname's list (capped)
  loop_runs,       \* history: per object, calls of find_neighbors that iterated (capped)
  subject,         \* the string handed to search() when the pattern is exercised alone
  re_result,       \* what search() answered for subject, once pc = "searched"
  arg_lst,         \* the list handed to split_list_by_regex when it is exercised alone
  matches,         \* split_list_by_regex: the first list returned, once pc = "split_done"
  non_matches,     \* split_list_by_regex: the second list returned
  gl_self,         \* _get_level: the object it runs on, None when it is not running
  gl_level,        \* _get_level: level
  gl_p,            \* _get_level: p
  levels,          \* history: object -> what _get_level last returned for it
  runs             \* history: the top-level calls (main, find_neighbors) made so far

vars == <<data, target, pc, error, fr_hostname, fr_visited, root_hostname, nodes,
          existing_nodes, visited, stack, fetched, loop_runs, subject, re_result,
          arg_lst, matches, non_matches, gl_self, gl_level, gl_p, levels, runs>>

-----------------------------------------------------------------------------
(* Bounds of the model.                                                    *)

\* the total number of neighbour entries of a generated adjacency map
MaxEdges == 5

\* the length of a generated string handed to the pattern
MaxLen == 6

\* the depth of the call stack of find_neighbors the model follows; the program
\* stays far below it (at most one call per object and one more)
MaxStack == 8

\* the value at which the model stops counting level in _get_level; a chain of
\* parents that ends is shorter than the number of objects, which stays below it
MaxLevel == 6

\* the number of links between devices of a generated symmetric map
MaxLinks == 4

\* the number of top-level calls (of main, of find_neighbors) in one process
MaxRuns == 2

\* the length of a generated list handed to split_list_by_regex
MaxList == 3

-----------------------------------------------------------------------------
(* Values.                                                                 *)

\* Python's None where a hostname is expected, and where an object is expected
NoneHost == "<None>"
None == 0

\* d[k] = v on a Python dict
Put(d, k, v) == [x \in DOMAIN d \cup {k} |-> IF x = k THEN v ELSE d[x]]

\* the value of a history counter that saturates
Bump(c) == IF c < 2 THEN c + 1 ELSE c

-----------------------------------------------------------------------------
(* Hostnames as character sequences, so that the pattern is computed.      *)

ExampleCom == <<".", "e", "x", "a", "m", "p", "l", "e", ".", "c", "o", "m">>
DotDomain == <<".", "d", "o", "m", "a", "i", "n">>

Chars(h) ==
  CASE h = "sweden-pe1.example.com" -> <<"s", "w", "e", "d", "e", "n", "-", "p", "e", "1">> \o ExampleCom
  [] h = "norway-pe1.example.com" -> <<"n", "o", "r", "w", "a", "y", "-", "p", "e", "1">> \o ExampleCom
  [] h = "finland-pe1.example.com" -> <<"f", "i", "n", "l", "a", "n", "d", "-", "p", "e", "1">> \o ExampleCom
  [] h = "denmark-pe2.example.com" -> <<"d", "e", "n", "m", "a", "r", "k", "-", "p", "e", "2">> \o ExampleCom
  [] h = "denmark-a1.example.com" -> <<"d", "e", "n", "m", "a", "r", "k", "-", "a", "1">> \o ExampleCom
  [] h = "sweden-a1.example.com" -> <<"s", "w", "e", "d", "e", "n", "-", "a", "1">> \o ExampleCom
  [] h = "sweden-a2.example.com" -> <<"s", "w", "e", "d", "e", "n", "-", "a", "2">> \o ExampleCom
  [] h = "sweden-a3.example.com" -> <<"s", "w", "e", "d", "e", "n", "-", "a", "3">> \o ExampleCom
  [] h = "sweden-a4.example.com" -> <<"s", "w", "e", "d", "e", "n", "-", "a", "4">> \o ExampleCom
  [] h = "sweden-a5.example.com" -> <<"s", "w", "e", "d", "e", "n", "-", "a", "5">> \o ExampleCom
  [] h = "sweden-a6.example.com" -> <<"s", "w", "e", "d", "e", "n", "-", "a", "6">> \o ExampleCom
  [] h = "sweden-a7.example.com" -> <<"s", "w", "e", "d", "e", "n", "-", "a", "7">> \o ExampleCom
  [] h = "denmark-pe1.example.com" -> <<"d", "e", "n", "m", "a", "r", "k", "-", "p", "e", "1">> \o ExampleCom
  [] h = "iceland-pe1.example.com" -> <<"i", "c", "e", "l", "a", "n", "d", "-", "p", "e", "1">> \o ExampleCom
  [] h = "greenland-pe1.example.com" -> <<"g", "r", "e", "e", "n", "l", "a", "n", "d", "-", "p", "e", "1">> \o ExampleCom
  [] h = "region-pe1.domain" -> <<"r", "e", "g", "i", "o", "n", "-", "p", "e", "1">> \o DotDomain
  [] h = "region-a1.domain" -> <<"r", "e", "g", "i", "o", "n", "-", "a", "1">> \o DotDomain
  [] h = "region-a2.domain" -> <<"r", "e", "g", "i", "o", "n", "-", "a", "2">> \o DotDomain
  [] h = "region-a3.domain" -> <<"r", "e", "g", "i", "o", "n", "-", "a", "3">> \o DotDomain
  [] h = "region-e1.domain" -> <<"r", "e", "g", "i", "o", "n", "-", "e", "1">> \o DotDomain
  [] h = "region-p1.domain" -> <<"r", "e", "g", "i", "o", "n", "-", "p", "1">> \o DotDomain

-----------------------------------------------------------------------------
(* REGEXP_PE_PATTERN = ^(?:\w+-)+pe?\d+\.  used with re.search: the        *)
(* anchor makes it a match of a prefix of the string.  The pattern is run  *)
(* as its position automaton; the set Q holds the positions of the pattern *)
(* that the characters read so far can have reached:                       *)
(*   0  nothing read                                                       *)
(*   1  inside \w+ of a label                                              *)
(*   2  after the "-" that ends a label                                    *)
(*   3  after "p"                                                          *)
(*   4  after "e"                                                          *)
(*   5  inside \d+                                                         *)
(*   6  after "\.": the pattern has matched                                *)

Digits == {"0", "1", "2", "3", "4", "5", "6", "7", "8", "9"}
Letters == {"a", "b", "c", "d", "e", "f", "g", "h", "i", "j", "k", "l", "m",
            "n", "o", "p", "q", "r", "s", "t", "u", "v", "w", "x", "y", "z"}

\* \w
IsWord(c) == c \in Letters \cup Digits \cup {"_"}

\* \d
IsDigit(c) == c \in Digits

\* the pattern with "e" required and "p" optional: p?e\d+ (not what the source has)
PatternStep_optional_p(Q, c) ==
     (IF IsWord(c) /\ Q \cap {0, 1, 2} # {} THEN {1} ELSE {})
  \cup (IF c = "-" /\ 1 \in Q THEN {2} ELSE {})
  \cup (IF c = "p" /\ 2 \in Q THEN {3} ELSE {})
  \cup (IF c = "e" /\ Q \cap {2, 3} # {} THEN {4} ELSE {})
  \cup (IF IsDigit(c) /\ Q \cap {4, 5} # {} THEN {5} ELSE {})
  \cup (IF c = "." /\ 5 \in Q THEN {6} ELSE {})

\* the positions reached from the positions Q by reading the character c
PatternStep(Q, c) ==
     (IF IsWord(c) /\ Q \cap {0, 1, 2} # {} THEN {1} ELSE {})
  \cup (IF c = "-" /\ 1 \in Q THEN {2} ELSE {})
  \cup (IF c = "p" /\ 2 \in Q THEN {3} ELSE {})
  \cup (IF c = "e" /\ 3 \in Q THEN {4} ELSE {})
  \cup (IF IsDigit(c) /\ Q \cap {3, 4, 5} # {} THEN {5} ELSE {})
  \cup (IF c = "." /\ 5 \in Q THEN {6} ELSE {})

RECURSIVE PatternRun(_, _, _)
\* TRUE iff some prefix of s, read from index i with the positions Q, matches
PatternRun(s, i, Q) ==
  IF 6 \in Q THEN TRUE
  ELSE IF i > Len(s) \/ Q = {} THEN FALSE
  ELSE PatternRun(s, i + 1, PatternStep(Q, s[i]))

\* search(REGEXP_PE_PATTERN, s) is not None, for a character sequence s
Search(s) == PatternRun(s, 1, {0})

\* the hostnames of the adjacency maps
Hostnames ==
  {"sweden-pe1.example.com", "norway-pe1.example.com", "finland-pe1.example.com",
   "denmark-pe2.example.com", "denmark-a1.example.com", "sweden-a1.example.com",
   "sweden-a2.example.com", "sweden-a3.example.com", "sweden-a4.example.com",
   "sweden-a5.example.com", "sweden-a6.example.com", "sweden-a7.example.com",
   "denmark-pe1.example.com", "iceland-pe1.example.com", "greenland-pe1.example.com",
   "region-pe1.domain", "region-a1.domain", "region-a2.domain", "region-a3.domain",
   "region-e1.domain", "region-p1.domain"}

\* the hostnames the pattern matches
Matching == {h \in Hostnames : Search(Chars(h))}

\* search(REGEXP_PE_PATTERN, hostname) is not None
IsPE(h) == IF h \in Hostnames THEN h \in Matching ELSE Search(Chars(h))

RECURSIVE SelectSeq2_newest_first(_, _)
\* the kept items of lst, the last one first
SelectSeq2_newest_first(lst, want) ==
  IF lst = <<>> THEN <<>>
  ELSE SelectSeq2_newest_first(Tail(lst), want)
         \o (IF IsPE(Head(lst)) = want THEN <<Head(lst)>> ELSE <<>>)

RECURSIVE SelectSeq2(_, _)
\* [item for item in lst if keep]: the subsequence of lst whose items' match is `want`
SelectSeq2(lst, want) ==
  IF lst = <<>> THEN <<>>
  ELSE (IF IsPE(Head(lst)) = want THEN <<Head(lst)>> ELSE <<>>) \o SelectSeq2(Tail(lst), want)

\* split_list_by_regex(lst, REGEXP_PE_PATTERN)
split_list_by_regex(lst) ==
  [matches |-> SelectSeq2(lst, TRUE), non_matches |-> SelectSeq2(lst, FALSE)]

-----------------------------------------------------------------------------
(* The adjacency maps.                                                     *)

sweden_pe1 == "sweden-pe1.example.com"
norway_pe1 == "norway-pe1.example.com"
finland_pe1 == "finland-pe1.example.com"
denmark_pe2 == "denmark-pe2.example.com"
denmark_a1 == "denmark-a1.example.com"
sweden_a1 == "sweden-a1.example.com"
sweden_a2 == "sweden-a2.example.com"
sweden_a3 == "sweden-a3.example.com"
sweden_a4 == "sweden-a4.example.com"
sweden_a5 == "sweden-a5.example.com"
sweden_a6 == "sweden-a6.example.com"
sweden_a7 == "sweden-a7.example.com"

\* the example dataset
STATIC_DATA ==
  [h \in {sweden_pe1, norway_pe1, finland_pe1, denmark_pe2, denmark_a1, sweden_a1,
          sweden_a2, sweden_a3, sweden_a4, sweden_a5, sweden_a6, sweden_a7} |->
     CASE h = sweden_pe1 -> <<norway_pe1, finland_pe1, denmark_pe2,
                              sweden_a1, sweden_a2, sweden_a4>>
       [] h = norway_pe1 -> <<sweden_pe1, "denmark-pe1.example.com", "iceland-pe1.example.com">>
       [] h = finland_pe1 -> <<sweden_pe1, "greenland-pe1.example.com">>
       [] h = denmark_pe2 -> <<sweden_pe1, denmark_a1>>
       [] h = denmark_a1 -> <<denmark_pe2>>
       [] h = sweden_a1 -> <<sweden_pe1, sweden_a3, sweden_a5>>
       [] h = sweden_a2 -> <<sweden_pe1, sweden_a6>>
       [] h = sweden_a3 -> <<sweden_a1, sweden_a7>>
       [] h = sweden_a4 -> <<sweden_pe1>>
       [] h = sweden_a5 -> <<sweden_a1>>
       [] h = sweden_a6 -> <<sweden_a2>>
       [] h = sweden_a7 -> <<sweden_a3>>]

\* the devices of the generated maps: one backbone device and three access devices
Hosts == {"region-pe1.domain", "region-a1.domain", "region-a2.domain", "region-a3.domain"}

\* the sequences without repetition over the set S
NoRepeatSeqs(S) ==
  UNION {{q \in [1..n -> S] : \A i, j \in 1..n : i # j => q[i] # q[j]} :
         n \in 0..Cardinality(S)}

\* the lists a generated map may give the device h: other devices, none twice
ListsOf(h) == NoRepeatSeqs(Hosts \ {h})

RECURSIVE MapsOver(_, _)
\* the maps whose keys are among the devices S, with at most `budget` neighbour
\* entries in all: the first device of S is not a key, or is one with a list l
MapsOver(S, budget) ==
  IF S = {} THEN {<<>>}
  ELSE LET h == CHOOSE x \in S : TRUE
       IN MapsOver(S \ {h}, budget)
            \cup UNION {{Put(m, h, l) : m \in MapsOver(S \ {h}, budget - Len(l))} :
                        l \in {x \in ListsOf(h) : Len(x) <= budget}}

\* the generated maps: any subset of Hosts as keys, each key with a list of other
\* devices (no device twice in a list, no device its own neighbour), at most
\* MaxEdges entries in all.  A listed neighbour need not be a key.
GeneratedMaps == MapsOver(Hosts, MaxEdges)

\* the devices of the maps the redundancy rule is exercised on: three backbone
\* devices and one access device
BackboneHosts == {sweden_pe1, norway_pe1, denmark_pe2, sweden_a1}

RECURSIVE MapsAmong(_, _, _)
\* the maps whose keys are among the devices S and whose lists name devices of U
\* (none twice in a list, no device its own neighbour), with at most `budget`
\* neighbour entries in all
MapsAmong(U, S, budget) ==
  IF S = {} THEN {<<>>}
  ELSE LET h == CHOOSE x \in S : TRUE
       IN MapsAmong(U, S \ {h}, budget)
            \cup UNION {{Put(m, h, l) : m \in MapsAmong(U, S \ {h}, budget - Len(l))} :
                        l \in {x \in NoRepeatSeqs(U \ {h}) : Len(x) <= budget}}

\* the maps over BackboneHosts with at most MaxEdges entries in all
BackboneMaps == MapsAmong(BackboneHosts, BackboneHosts, MaxEdges)

\* the devices of the symmetric maps: two backbone devices and three access devices
SymHosts == Hosts \cup {"region-p1.domain"}

\* the links two devices of SymHosts can have
Links == {l \in SUBSET SymHosts : Cardinality(l) = 2}

\* the devices h is linked to by the links L
LinkedTo(L, h) == {x \in SymHosts : {h, x} \in L}

\* the orders a list can name the devices S in
Orders(S) == {q \in NoRepeatSeqs(S) : Len(q) = Cardinality(S)}

RECURSIVE ListingsOf(_, _)
\* the maps with the keys S in which each key lists the devices it is linked to
\* by L, in any order
ListingsOf(L, S) ==
  IF S = {} THEN {<<>>}
  ELSE LET h == CHOOSE x \in S : TRUE
       IN UNION {{Put(m, h, l) : m \in ListingsOf(L, S \ {h})} : l \in Orders(LinkedTo(L, h))}

\* the symmetric maps: every device of SymHosts is a key and lists, in any order,
\* the devices that list it; at most MaxLinks links in all
SymmetricMaps ==
  UNION {ListingsOf(L, SymHosts) : L \in {X \in SUBSET Links : Cardinality(X) <= MaxLinks}}

\* a device is in the list of every device of its own list
Symmetric(m) ==
  \A h \in DOMAIN m : \A i \in 1..Len(m[h]) :
     /\ m[h][i] \in DOMAIN m
     /\ \E j \in 1..Len(m[m[h][i]]) : m[m[h][i]][j] = h

\* every listed neighbour is itself a key
Closed(m) == \A h \in DOMAIN m : \A i \in 1..Len(m[h]) : m[h][i] \in DOMAIN m

-----------------------------------------------------------------------------
(* The state after construction: main is about to call find_root(target).  *)

InitMain(m, t) ==
  /\ data = m
  /\ target = t
  /\ pc = "find_root"
  /\ error = ""
  /\ fr_hostname = t
  /\ fr_visited = {}
  /\ root_hostname = NoneHost
  /\ nodes = <<>>
  /\ existing_nodes = <<>>
  /\ visited = {}
  /\ stack = <<>>
  /\ fetched = <<>>
  /\ loop_runs = <<>>
  /\ subject = <<>>
  /\ re_result = FALSE
  /\ arg_lst = <<>>
  /\ matches = <<>>
  /\ non_matches = <<>>
  /\ gl_self = None
  /\ gl_level = 0
  /\ gl_p = None
  /\ levels = <<>>
  /\ runs = 1

Init == \E m \in GeneratedMaps : \E t \in DOMAIN m : InitMain(m, t)

-----------------------------------------------------------------------------
(* find_root: one call per step (the recursive call is a tail call).       *)

\* visited without the hostname added
visited_add_skipped(h) == fr_visited

\* visited.add(hostname), line 171
visited_add(h) == fr_visited \cup {h}

\* the first backbone neighbour when the list has one, else the first neighbour:
\* a loop that tests every neighbour before it follows any
first_pe_or_first(cdp_neighbors) ==
  IF split_list_by_regex(cdp_neighbors).matches # <<>>
    THEN split_list_by_regex(cdp_neighbors).matches[1]
    ELSE cdp_neighbors[1]

\* the neighbour after the first, when the list has one
neighbor_after_first(cdp_neighbors) ==
  IF Len(cdp_neighbors) >= 2 THEN cdp_neighbors[2] ELSE cdp_neighbors[1]

\* the last neighbour of the list in place of the first
last_neighbor(cdp_neighbors) == cdp_neighbors[Len(cdp_neighbors)]

\* the neighbour the loop of lines 167-172 handles: its body returns in both of its
\* branches, so only the first neighbour is ever looked at
loop_neighbor(cdp_neighbors) == cdp_neighbors[1]

\* fetched, after the list of hostname was fetched once more
Fetch(hostname) ==
  Put(fetched, hostname, Bump(IF hostname \in DOMAIN fetched THEN fetched[hostname] ELSE 0))

\* find_root with the neighbour list fetched before the pattern is tried
find_root_call_lookup_first ==
  IF fr_hostname \in fr_visited
    THEN [does |-> "return", value |-> NoneHost, visited |-> fr_visited, fetched |-> fetched]
  ELSE IF fr_hostname \notin DOMAIN data
    THEN [does |-> "raise", value |-> NoneHost, visited |-> fr_visited, fetched |-> fetched]
  ELSE IF IsPE(fr_hostname)
    THEN [does |-> "return", value |-> fr_hostname, visited |-> fr_visited,
          fetched |-> Fetch(fr_hostname)]
  ELSE IF data[fr_hostname] = <<>>
    THEN [does |-> "return", value |-> NoneHost, visited |-> fr_visited,
          fetched |-> Fetch(fr_hostname)]
  ELSE IF IsPE(loop_neighbor(data[fr_hostname]))
    THEN [does |-> "return", value |-> loop_neighbor(data[fr_hostname]),
          visited |-> fr_visited, fetched |-> Fetch(fr_hostname)]
  ELSE [does |-> "call", value |-> loop_neighbor(data[fr_hostname]),
        visited |-> visited_add(fr_hostname), fetched |-> Fetch(fr_hostname)]

\* one call find_root(fr_hostname, fr_visited), lines 151-175: what it does.
\*   "return": it returns `value` to main;  "raise": STATIC_DATA[hostname] raises;
\*   "call": it returns what find_root(value, visited) will return
find_root_call ==
  IF fr_hostname \in fr_visited
    THEN [does |-> "return", value |-> NoneHost, visited |-> fr_visited, fetched |-> fetched]
  ELSE IF IsPE(fr_hostname)
    THEN [does |-> "return", value |-> fr_hostname, visited |-> fr_visited, fetched |-> fetched]
  ELSE IF fr_hostname \notin DOMAIN data
    THEN [does |-> "raise", value |-> NoneHost, visited |-> fr_visited, fetched |-> fetched]
  ELSE LET cdp_neighbors == data[fr_hostname]
           neighbor == loop_neighbor(cdp_neighbors)
       IN IF cdp_neighbors = <<>>
            THEN [does |-> "return", value |-> NoneHost, visited |-> fr_visited,
                  fetched |-> Fetch(fr_hostname)]
          ELSE IF IsPE(neighbor)
            THEN [does |-> "return", value |-> neighbor, visited |-> fr_visited,
                  fetched |-> Fetch(fr_hostname)]
          ELSE [does |-> "call", value |-> neighbor, visited |-> visited_add(fr_hostname),
                fetched |-> Fetch(fr_hostname)]

\* a call of find_root; main keeps what the outermost call returns as
\* root_hostname and goes on to build the tree when it is not None (lines 181-182)
find_root ==
  /\ pc = "find_root" /\ error = ""
  /\ LET call == find_root_call
     IN /\ fetched' = call.fetched
        /\ fr_visited' = call.visited
        /\ fr_hostname' = IF call.does = "call" THEN call.value ELSE fr_hostname
        /\ root_hostname' = IF call.does = "return" THEN call.value ELSE root_hostname
        /\ error' = IF call.does = "raise" THEN "KeyError" ELSE error
        /\ pc' = IF call.does = "return"
                   THEN (IF call.value # NoneHost THEN "create_root" ELSE "done")
                   ELSE pc
  /\ UNCHANGED <<data, target, nodes, existing_nodes, visited, stack, loop_runs,
                 subject, re_result,
                 arg_lst, matches, non_matches, gl_self, gl_level, gl_p, levels, runs>>

-----------------------------------------------------------------------------
(* NetworkTreeNode.                                                        *)

\* NetworkTreeNode.get_existing_node(hostname): the object, or None
get_existing_node(hostname) ==
  IF hostname \in DOMAIN existing_nodes THEN existing_nodes[hostname] ELSE None

\* NetworkTreeNode(hostname) on the objects ns and the registry reg: a new object
\* with no parent and no children, which _add_to_existing puts in the registry
\* in place of whatever the hostname had there
NewNode(ns, reg, hostname) ==
  [nodes |-> Append(ns, [hostname |-> hostname, parent |-> None, children |-> <<>>]),
   existing_nodes |-> Put(reg, hostname, Len(ns) + 1),
   node |-> Len(ns) + 1]

\* _add_child without the test of line 83: the child is always taken over
add_child_always(self, child_hostname) ==
  LET existing == get_existing_node(child_hostname)
      made == IF existing = None
                THEN NewNode(nodes, existing_nodes, child_hostname)
                ELSE [nodes |-> nodes, existing_nodes |-> existing_nodes, node |-> existing]
      child == made.node
  IN [nodes |-> [made.nodes EXCEPT ![child].parent = self,
                                   ![self].children = Append(@, child)],
      existing_nodes |-> made.existing_nodes,
      child |-> child]

\* self._add_child(child_hostname): the objects and the registry afterwards, and
\* the object returned
add_child(self, child_hostname) ==
  LET existing == get_existing_node(child_hostname)
      made == IF existing = None
                THEN NewNode(nodes, existing_nodes, child_hostname)
                ELSE [nodes |-> nodes, existing_nodes |-> existing_nodes, node |-> existing]
      child == made.node
  IN IF made.nodes[self].parent = child
       THEN [nodes |-> made.nodes, existing_nodes |-> made.existing_nodes, child |-> child]
       ELSE [nodes |-> [made.nodes EXCEPT ![child].parent = self,
                                          ![self].children = Append(@, child)],
             existing_nodes |-> made.existing_nodes,
             child |-> child]

-----------------------------------------------------------------------------
(* main, lines 182-184: the root object is always constructed anew, then    *)
(* find_neighbors is called on it with no visited set.                     *)

\* a call of find_neighbors on the object n that has not run yet
Call(n) == [self |-> n, at |-> "enter", dependant_neighbors |-> <<>>, i |-> 1]

create_root ==
  /\ pc = "create_root" /\ error = ""
  /\ LET made == NewNode(nodes, existing_nodes, root_hostname)
     IN /\ nodes' = made.nodes
        /\ existing_nodes' = made.existing_nodes
        /\ stack' = <<Call(made.node)>>
        /\ loop_runs' = Append(loop_runs, 0)
  /\ visited' = {}
  /\ pc' = "find_neighbors"
  /\ UNCHANGED <<data, target, error, fr_hostname, fr_visited, root_hostname, fetched,
                 subject, re_result,
                 arg_lst, matches, non_matches, gl_self, gl_level, gl_p, levels, runs>>

-----------------------------------------------------------------------------
(* find_neighbors.  A call is a frame of the stack; it is at "enter" until  *)
(* lines 94-118 have run, then at "loop" with i the index of the next       *)
(* dependant neighbour.                                                    *)

Top == stack[Len(stack)]
Pop == SubSeq(stack, 1, Len(stack) - 1)

\* the test of line 117 on the other half of the split
NotRedundant_non_matches(neighbor) == Len(split_list_by_regex(data[neighbor]).non_matches) < 2

\* len(mpls_neighbors) < 2 for the neighbour's own list, lines 112-117
NotRedundant(neighbor) == Len(split_list_by_regex(data[neighbor]).matches) < 2

\* the loop of lines 111-118 ended after its first neighbour
SelectNotRedundant_first_only(mpls) ==
  IF mpls # <<>> /\ NotRedundant(Head(mpls)) THEN <<Head(mpls)>> ELSE <<>>

RECURSIVE SelectNotRedundant(_)
\* the backbone neighbours the loop of lines 111-118 appends, in order.  The
\* loop runs over the list object it started with: rebinding the name
\* mpls_neighbors in its body (line 113) does not change what it iterates.
SelectNotRedundant(mpls) ==
  IF mpls = <<>> THEN <<>>
  ELSE (IF NotRedundant(Head(mpls)) THEN <<Head(mpls)>> ELSE <<>>)
         \o SelectNotRedundant(Tail(mpls))

\* dependant_neighbors left empty for a node that is not a backbone device
Dependants_of_backbone_only(hostname) ==
  LET parts == split_list_by_regex(data[hostname])
  IN IF IsPE(hostname)
       THEN parts.non_matches \o SelectNotRedundant(parts.matches)
       ELSE <<>>

\* dependant_neighbors as line 124 finds it, for a node named hostname
Dependants(hostname) ==
  LET parts == split_list_by_regex(data[hostname])
  IN IF IsPE(hostname)
       THEN parts.non_matches \o SelectNotRedundant(parts.matches)
       ELSE parts.non_matches

\* STATIC_DATA[self] in place of STATIC_DATA[self.hostname]: no object is a key
lookup_by_object(hostname) == TRUE

\* a lookup of lines 100-112 raises KeyError
LookupFails(hostname) ==
  \/ hostname \notin DOMAIN data
  \/ /\ IsPE(hostname)
     /\ \E k \in 1..Len(data[hostname]) :
          IsPE(data[hostname][k]) /\ data[hostname][k] \notin DOMAIN data

\* the innermost call returns: main goes on when it was the outermost one
find_neighbors_returns ==
  /\ stack' = Pop
  /\ pc' = IF Len(stack) = 1 THEN "done" ELSE pc

\* lines 94-118 of the innermost call: it returns at once when its object is in
\* visited; else it fetches the lists, which may raise, and has its
\* dependant_neighbors
find_neighbors_enter ==
  /\ pc = "find_neighbors" /\ error = ""
  /\ stack # <<>> /\ Top.at = "enter"
  /\ LET seen == Top.self \in visited
         fails == ~seen /\ LookupFails(nodes[Top.self].hostname)
     IN /\ error' = IF fails THEN "KeyError" ELSE error
        /\ pc' = IF seen /\ Len(stack) = 1 THEN "done" ELSE pc
        /\ stack' = IF seen THEN Pop
                    ELSE IF fails THEN stack
                    ELSE [stack EXCEPT ![Len(stack)] =
                            [@ EXCEPT !.at = "loop",
                                      !.dependant_neighbors =
                                         Dependants(nodes[Top.self].hostname)]]
  /\ UNCHANGED <<data, target, fr_hostname, fr_visited, root_hostname, nodes,
                 existing_nodes, visited, fetched, loop_runs, subject, re_result,
                 arg_lst, matches, non_matches, gl_self, gl_level, gl_p, levels, runs>>

\* the visited set left as it is
mark_visited_skipped(self) == visited

\* visited.add(self), line 126
mark_visited(self) == visited \cup {self}

\* lines 124-127, one iteration: _add_child, visited.add, and the call on the child
find_neighbors_loop ==
  /\ pc = "find_neighbors" /\ error = ""
  /\ stack # <<>> /\ Top.at = "loop" /\ Top.i <= Len(Top.dependant_neighbors)
  /\ Len(stack) < MaxStack
  /\ LET self == Top.self
         added == add_child(self, Top.dependant_neighbors[Top.i])
     IN /\ nodes' = added.nodes
        /\ existing_nodes' = added.existing_nodes
        /\ visited' = mark_visited(self)
        /\ stack' = Append([stack EXCEPT ![Len(stack)].i = @ + 1], Call(added.child))
        /\ loop_runs' = LET grown == IF Len(added.nodes) > Len(loop_runs)
                                       THEN Append(loop_runs, 0) ELSE loop_runs
                        IN IF Top.i = 1 THEN [grown EXCEPT ![self] = Bump(@)] ELSE grown
  /\ UNCHANGED <<data, target, pc, error, fr_hostname, fr_visited, root_hostname,
                 fetched, subject, re_result,
                 arg_lst, matches, non_matches, gl_self, gl_level, gl_p, levels, runs>>

\* the loop of line 124 is exhausted: the call returns
find_neighbors_return ==
  /\ pc = "find_neighbors" /\ error = ""
  /\ stack # <<>> /\ Top.at = "loop" /\ Top.i > Len(Top.dependant_neighbors)
  /\ find_neighbors_returns
  /\ UNCHANGED <<data, target, error, fr_hostname, fr_visited, root_hostname, nodes,
                 existing_nodes, visited, fetched, loop_runs, subject, re_result,
                 arg_lst, matches, non_matches, gl_self, gl_level, gl_p, levels, runs>>

-----------------------------------------------------------------------------
(* _get_level, lines 129-135, one step per evaluation of the loop test.    *)
(* print_tree calls it on the object it prints; the model calls it, once a *)
(* build is over, on any object of the registry.                           *)

\* the objects of the registry
Registered == {existing_nodes[h] : h \in DOMAIN existing_nodes}

\* level = 0; p = self.parent
get_level_call ==
  /\ pc = "done" /\ error = "" /\ nodes # <<>>
  /\ \E n \in Registered :
       /\ gl_self' = n
       /\ gl_level' = 0
       /\ gl_p' = nodes[n].parent
  /\ pc' = "get_level"
  /\ UNCHANGED <<data, target, error, fr_hostname, fr_visited, root_hostname, nodes,
                 existing_nodes, visited, stack, fetched, loop_runs, subject, re_result,
                 arg_lst, matches, non_matches, levels, runs>>

\* level += 1, counted up to MaxLevel
level_incremented(level) == IF level < MaxLevel THEN level + 1 ELSE level

\* while p: level += 1; p = p.parent
get_level_loop ==
  /\ pc = "get_level" /\ gl_p # None
  /\ gl_level' = level_incremented(gl_level)
  /\ gl_p' = nodes[gl_p].parent
  /\ UNCHANGED <<data, target, pc, error, fr_hostname, fr_visited, root_hostname, nodes,
                 existing_nodes, visited, stack, fetched, loop_runs, subject, re_result,
                 arg_lst, matches, non_matches, gl_self, levels, runs>>

\* the loop test fails: return level
get_level_return ==
  /\ pc = "get_level" /\ gl_p = None
  /\ levels' = Put(levels, gl_self, gl_level)
  /\ gl_self' = None
  /\ pc' = "done"
  /\ UNCHANGED <<data, target, error, fr_hostname, fr_visited, root_hostname, nodes,
                 existing_nodes, visited, stack, fetched, loop_runs, subject, re_result,
                 arg_lst, matches, non_matches, gl_level, gl_p, runs>>

-----------------------------------------------------------------------------
(* More than one build in a process: the registry is a class attribute and *)
(* keeps its objects from one top-level call to the next.                  *)

\* loop_runs, counted anew for the next top-level call
NoLoopRuns == [n \in 1..Len(nodes) |-> 0]

\* main is called again, with any key as target: lines 180-181
main_again ==
  /\ pc = "done" /\ error = "" /\ runs < MaxRuns
  /\ \E t \in DOMAIN data :
       /\ target' = t
       /\ fr_hostname' = t
  /\ fr_visited' = {}
  /\ root_hostname' = NoneHost
  /\ fetched' = <<>>
  /\ visited' = {}
  /\ stack' = <<>>
  /\ loop_runs' = NoLoopRuns
  /\ runs' = runs + 1
  /\ pc' = "find_root"
  /\ UNCHANGED <<data, error, nodes, existing_nodes, subject, re_result,
                 arg_lst, matches, non_matches, gl_self, gl_level, gl_p, levels>>

\* find_neighbors() is called, with no visited set, on an object of the registry
find_neighbors_top ==
  /\ pc = "done" /\ error = "" /\ runs < MaxRuns
  /\ \E n \in Registered : stack' = <<Call(n)>>
  /\ visited' = {}
  /\ loop_runs' = NoLoopRuns
  /\ runs' = runs + 1
  /\ pc' = "find_neighbors"
  /\ UNCHANGED <<data, target, error, fr_hostname, fr_visited, root_hostname, nodes,
                 existing_nodes, fetched, subject, re_result,
                 arg_lst, matches, non_matches, gl_self, gl_level, gl_p, levels>>

-----------------------------------------------------------------------------
(* The pattern on its own: search(REGEXP_PE_PATTERN, subject).             *)

search ==
  /\ pc = "search"
  /\ re_result' = Search(subject)
  /\ pc' = "searched"
  /\ UNCHANGED <<data, target, error, fr_hostname, fr_visited, root_hostname,
                 nodes, existing_nodes, visited, stack, fetched, loop_runs, subject,
                 arg_lst, matches, non_matches, gl_self, gl_level, gl_p, levels, runs>>

-----------------------------------------------------------------------------
(* split_list_by_regex on its own.                                         *)

split ==
  /\ pc = "split"
  /\ LET parts == split_list_by_regex(arg_lst)
     IN /\ matches' = parts.matches
        /\ non_matches' = parts.non_matches
  /\ pc' = "split_done"
  /\ UNCHANGED <<data, target, error, fr_hostname, fr_visited, root_hostname,
                 nodes, existing_nodes, visited, stack, fetched, loop_runs, subject,
                 re_result, arg_lst, gl_self, gl_level, gl_p, levels, runs>>

-----------------------------------------------------------------------------
(* Specifications.                                                         *)

Next == find_root \/ create_root \/ find_neighbors_enter \/ find_neighbors_loop
          \/ find_neighbors_return

\* main on a generated adjacency map, for every key as target
Spec == Init /\ [][Next]_vars

\* the program is run to its end: nothing but the program's own steps happens,
\* and a step that can be taken is taken
FairSpec == Init /\ [][Next]_vars /\ WF_vars(Next)

\* main on the example dataset, for every key as target
InitStatic == \E t \in DOMAIN STATIC_DATA : InitMain(STATIC_DATA, t)
SpecStatic == InitStatic /\ [][Next]_vars

\* a tree is built from a backbone device that is a key, then _get_level is
\* called on objects of the registry; every call is run to its end if it has one
InitLevel == \E m \in GeneratedMaps : \E t \in DOMAIN m : IsPE(t) /\ InitMain(m, t)
NextLevel == Next \/ get_level_call \/ get_level_loop \/ get_level_return
SpecLevel == InitLevel /\ [][NextLevel]_vars /\ WF_vars(NextLevel)

\* main on a map of backbone devices whose listed neighbours are all keys, for
\* every key as target
InitBackbone ==
  \E m \in {x \in BackboneMaps : Closed(x)} : \E t \in DOMAIN m : InitMain(m, t)
SpecBackbone == InitBackbone /\ [][Next]_vars

\* main on a symmetric map, for every key as target
InitSymmetric == \E m \in SymmetricMaps : \E t \in DOMAIN m : InitMain(m, t)
SpecSymmetric == InitSymmetric /\ [][Next]_vars

\* main on a generated map, then further top-level calls in the same process
NextProcess == Next \/ main_again \/ find_neighbors_top
SpecProcess == Init /\ [][NextProcess]_vars

\* the targets of find_root: the devices of the generated maps and a second
\* backbone device, whether or not they are keys of the map
Targets == Hosts \cup {"region-p1.domain"}

\* main on a generated adjacency map, for every target, a key or not
InitAnyTarget == \E m \in GeneratedMaps : \E t \in Targets : InitMain(m, t)
SpecAnyTarget == InitAnyTarget /\ [][Next]_vars

\* the characters of the generated strings: a word character that is neither "p"
\* nor "e", the two letters and a digit of the pattern, its dash and its dot
Alphabet == {"a", "p", "e", "1", "-", "."}
BoundedStrings == UNION {[1..n -> Alphabet] : n \in 0..MaxLen}

\* the identifiers the backbone predicate is documented with
ExampleNames == {"region-pe1.domain", "region-e1.domain", "region-p1.domain",
                 "region-a1.domain"}

\* the pattern alone, on every generated string and on the example names
InitSearch ==
  /\ subject \in BoundedStrings \cup {Chars(h) : h \in ExampleNames}
  /\ re_result = FALSE
  /\ pc = "search"
  /\ data = <<>> /\ target = NoneHost /\ error = "" /\ fr_hostname = NoneHost
  /\ fr_visited = {} /\ root_hostname = NoneHost /\ nodes = <<>>
  /\ existing_nodes = <<>> /\ visited = {} /\ stack = <<>>
  /\ fetched = <<>> /\ loop_runs = <<>>
  /\ arg_lst = <<>> /\ matches = <<>> /\ non_matches = <<>>
  /\ gl_self = None /\ gl_level = 0 /\ gl_p = None /\ levels = <<>> /\ runs = 1

NextSearch == search
SpecSearch == InitSearch /\ [][NextSearch]_vars

\* the items of the generated lists: two names the pattern matches, two it does not
SplitItems == {"region-pe1.domain", "region-p1.domain", "region-a1.domain",
               "region-e1.domain"}

\* every list of at most MaxList items, the empty one and those that repeat an
\* item included
BoundedLists == UNION {[1..n -> SplitItems] : n \in 0..MaxList}

InitSplit ==
  /\ arg_lst \in BoundedLists
  /\ matches = <<>> /\ non_matches = <<>>
  /\ pc = "split"
  /\ data = <<>> /\ target = NoneHost /\ error = "" /\ fr_hostname = NoneHost
  /\ fr_visited = {} /\ root_hostname = NoneHost /\ nodes = <<>>
  /\ existing_nodes = <<>> /\ visited = {} /\ stack = <<>>
  /\ fetched = <<>> /\ loop_runs = <<>>
  /\ subject = <<>> /\ re_result = FALSE
  /\ gl_self = None /\ gl_level = 0 /\ gl_p = None /\ levels = <<>> /\ runs = 1

NextSplit == split
SpecSplit == InitSplit /\ [][NextSplit]_vars

-----------------------------------------------------------------------------
(* Properties of the tree.                                                 *)

Objects == 1..Len(nodes)

\* the object main built the tree from: the one registered for root_hostname
RootObject == existing_nodes[root_hostname]

\* main has run find_neighbors on the root to completion
Built == pc = "done" /\ error = "" /\ nodes # <<>>

\* the children of the objects in S, as a set
ChildrenOf(S) == UNION {{nodes[p].children[k] : k \in 1..Len(nodes[p].children)} : p \in S}

RECURSIVE DownFrom(_)
\* the objects reachable from the objects S through child lists
DownFrom(S) == IF ChildrenOf(S) \subseteq S THEN S ELSE DownFrom(S \cup ChildrenOf(S))

RECURSIVE Ancestor(_, _)
\* the object k parent hops above n, None when the chain ends before
Ancestor(n, k) ==
  IF k = 0 \/ n = None THEN n ELSE Ancestor(nodes[n].parent, k - 1)

\* c is in the child list of p
IsChildOf(c, p) == \E k \in 1..Len(nodes[p].children) : nodes[p].children[k] = c

\* C1: after a build from a backbone root on an empty registry over a map whose
\* listed neighbours are all keys, every object reachable from the root through
\* child lists reaches the root by parent pointers, and its parent chain ends
\* (the parent relation has no cycle).
C1_ParentChainsReachRoot ==
  (Built /\ Closed(data) /\ IsPE(root_hostname)) =>
     \A n \in DownFrom({RootObject}) :
        /\ \E k \in 0..Len(nodes) : Ancestor(n, k) = RootObject
        /\ \E k \in 1..(Len(nodes) + 1) : Ancestor(n, k) = None

\* C2: in every state of a build, c is in the child list of p iff c.parent is p.
C2_ChildListsAgreeWithParents ==
  \A p \in Objects : \A c \in Objects : IsChildOf(c, p) <=> nodes[c].parent = p

\* C3: once an object's parent is set it never changes, and an object that has a
\* parent is not appended to another object's child list.
C3_ParentNeverChanges ==
  [][\A n \in Objects :
       nodes[n].parent # None =>
         /\ nodes'[n].parent = nodes[n].parent
         /\ \A p \in Objects :
              p # nodes[n].parent /\ ~IsChildOf(n, p) =>
                 \A k \in 1..Len(nodes'[p].children) : nodes'[p].children[k] # n]_vars

-----------------------------------------------------------------------------
(* Properties of the example dataset (SpecStatic).                         *)

\* the object registered for the hostname h is in the child list of the object
\* registered for p, and has it as parent
Attached(h, p) ==
  /\ h \in DOMAIN existing_nodes /\ p \in DOMAIN existing_nodes
  /\ IsChildOf(existing_nodes[h], existing_nodes[p])
  /\ nodes[existing_nodes[h]].parent = existing_nodes[p]

\* the hostnames of the children of the object n, in order
ChildNames(n) == [k \in 1..Len(nodes[n].children) |-> nodes[nodes[n].children[k]].hostname]

\* C4 as stated: the tree built from sweden-pe1 has norway-pe1 as a child of
\* sweden-pe1.
C4_NorwayAttached ==
  (Built /\ root_hostname = sweden_pe1) => Attached(norway_pe1, sweden_pe1)

\* C4, amended: the build from sweden-pe1 raises no lookup failure and at no time
\* has an object for norway-pe1 (its list names three backbone devices); it ends
\* with denmark-pe2 as the one backbone neighbour attached as a child of
\* sweden-pe1, after the three access devices.
C4_DenmarkAttachedNorwayNot ==
  root_hostname = sweden_pe1 =>
     /\ error = ""
     /\ norway_pe1 \notin DOMAIN existing_nodes
     /\ Built =>
          /\ Attached(denmark_pe2, sweden_pe1)
          /\ ChildNames(RootObject) = <<sweden_a1, sweden_a2, sweden_a4, denmark_pe2>>

C4_Witness ==
  /\ Built /\ root_hostname = sweden_pe1 /\ target = sweden_pe1
  /\ Attached(denmark_pe2, sweden_pe1)

-----------------------------------------------------------------------------
(* Properties of find_root.                                                *)

\* find_root has returned to main
Returned == pc # "find_root"

\* C5: for a target that is a key and not a backbone device and whose list holds
\* a backbone device, find_root(target) returns the first backbone device of
\* that list.
C5_FirstBackboneNeighborReturned ==
  (/\ Returned /\ Closed(data) /\ ~IsPE(target)
   /\ split_list_by_regex(data[target]).matches # <<>>)
    => root_hostname = split_list_by_regex(data[target]).matches[1]

\* no hostname's neighbour list was fetched twice by find_root
NoRefetch == \A h \in DOMAIN fetched : fetched[h] <= 1

\* the target and the first device of its list are access devices that list each
\* other first
TwoCycle ==
  /\ target \in DOMAIN data /\ ~IsPE(target) /\ data[target] # <<>>
  /\ LET b == data[target][1]
     IN /\ ~IsPE(b) /\ b \in DOMAIN data /\ data[b] # <<>> /\ data[b][1] = target

\* C6: find_root(target) terminates, fetches no hostname's list twice, and on a
\* 2-cycle of access devices returns None.
C6_FindRootTerminatesWithoutRefetch ==
  /\ [](Closed(data) => NoRefetch)
  /\ [](Closed(data) /\ TwoCycle /\ Returned => root_hostname = NoneHost)
  /\ <>(Returned \/ ~Closed(data))

C6_Witness ==
  /\ Closed(data) /\ TwoCycle /\ Returned /\ root_hostname = NoneHost
  /\ fetched[target] = 1 /\ fetched[data[target][1]] = 1

\* C13: for a target the pattern matches, the top-level find_root(target) returns
\* the target itself in its first call, without fetching a neighbour list and
\* without a lookup failure, whether or not the target is a key.
C13_BackboneTargetIsItsOwnRoot ==
  IsPE(target) =>
     /\ fetched = <<>> /\ fr_hostname = target /\ fr_visited = {}
     /\ pc = "find_root" => error = ""
     /\ Returned => root_hostname = target

\* find_root has returned a backbone target that is not a key
C13_Witness ==
  /\ pc = "create_root" /\ error = "" /\ IsPE(target) /\ target \notin DOMAIN data
  /\ root_hostname = target /\ fetched = <<>>

\* C14: on the example dataset the top-level find_root("sweden-a1.example.com")
\* returns "sweden-pe1.example.com" (after fetching the list of sweden-a1 alone).
C14_SwedenA1RootIsSwedenPE1 ==
  target = sweden_a1 =>
     /\ pc = "find_root" => error = ""
     /\ Returned => root_hostname = sweden_pe1 /\ DOMAIN fetched = {sweden_a1}

\* find_root("sweden-a1.example.com") has returned on the example dataset
C14_Witness ==
  /\ data = STATIC_DATA /\ target = sweden_a1 /\ pc = "create_root"
  /\ root_hostname = sweden_pe1

\* the next call of find_root is on a hostname not yet visited that is a key and
\* not a backbone device, and whose list holds no backbone device
CallOnAccessOnlyList ==
  /\ pc = "find_root" /\ error = ""
  /\ fr_hostname \notin fr_visited /\ fr_hostname \in DOMAIN data /\ ~IsPE(fr_hostname)
  /\ \A i \in 1..Len(data[fr_hostname]) : ~IsPE(data[fr_hostname][i])

RECURSIVE FirstPath(_, _)
\* the hostnames on the path that starts at h and goes on to the first-listed
\* neighbour of each access device that is a key, for at most n hops
FirstPath(h, n) ==
  IF n = 0 \/ h \notin DOMAIN data \/ IsPE(h) \/ data[h] = <<>> THEN {h}
  ELSE {h} \cup FirstPath(data[h][1], n - 1)

-----------------------------------------------------------------------------
(* Properties of find_neighbors.                                           *)

\* no object ran the loop of line 124 with an iteration in two calls
LoopAtMostOnce == \A n \in 1..Len(loop_runs) : loop_runs[n] <= 1

\* C7: find_neighbors on the root with an empty visited set terminates, and each
\* object iterates over its dependant neighbours in at most one call.
C7_FindNeighborsTerminates ==
  /\ [](Closed(data) => LoopAtMostOnce)
  /\ (pc = "find_neighbors") ~> (pc = "done" \/ ~Closed(data))

\* a build is over in which two objects that list each other both iterated
C7_Witness ==
  /\ Built /\ Closed(data) /\ Len(nodes) >= 3
  /\ \E a, b \in Objects :
       /\ a # b /\ loop_runs[a] = 1 /\ loop_runs[b] = 1
       /\ \E i \in 1..Len(data[nodes[a].hostname]) :
            data[nodes[a].hostname][i] = nodes[b].hostname
       /\ \E i \in 1..Len(data[nodes[b].hostname]) :
            data[nodes[b].hostname][i] = nodes[a].hostname

\* the next step is an iteration of the loop of line 124 whose neighbour is
\* registered as the object that is the parent of the iterating object
AddChildOfOwnParent ==
  /\ pc = "find_neighbors" /\ error = "" /\ stack # <<>>
  /\ Top.at = "loop" /\ Top.i <= Len(Top.dependant_neighbors)
  /\ nodes[Top.self].parent # None
  /\ get_existing_node(Top.dependant_neighbors[Top.i]) = nodes[Top.self].parent

\* C9: _add_child(h) on an object whose parent is the registered object of h
\* returns that object and changes no object and no registry entry.
C9_AddChildOfParentIsNoOp ==
  [][AddChildOfOwnParent =>
       /\ nodes' = nodes
       /\ existing_nodes' = existing_nodes
       /\ stack'[Len(stack')].self = nodes[Top.self].parent]_vars

\* _add_child has just returned the parent of the object that called it
C9_Witness ==
  /\ pc = "find_neighbors" /\ error = "" /\ Len(stack) >= 2
  /\ Top.at = "enter"
  /\ nodes[stack[Len(stack) - 1].self].parent = Top.self

\* C10: when every listed neighbour is a key and the target is a key, neither
\* find_root nor the build looks up a hostname that is not a key.
C10_NoLookupFailureOnClosedMap == Closed(data) => error = ""

\* a tree of three objects was built over a map whose listed neighbours are keys
C10_Witness == Built /\ Closed(data) /\ ~IsPE(target) /\ Len(nodes) >= 3

-----------------------------------------------------------------------------
(* Properties of the backbone pattern (SpecSearch).                         *)

\* s[1..d] is one or more labels, each one or more word characters and a dash
DashTerminatedLabels(s, d) ==
  /\ d >= 2 /\ d <= Len(s)
  /\ s[d] = "-" /\ IsWord(s[1])
  /\ \A i \in 1..d : IsWord(s[i]) \/ s[i] = "-"
  /\ \A i \in 1..(d - 1) : ~(s[i] = "-" /\ s[i + 1] = "-")

\* s[j..k-1] is one or more digits and s[k] is a dot
DigitsThenDot(s, j, k) ==
  /\ j <= k - 1 /\ k <= Len(s)
  /\ \A i \in j..(k - 1) : IsDigit(s[i])
  /\ s[k] = "."

\* the form C8 states: labels, then optional "p", then "e", digits and a dot
Form_optional_p_then_e(s) ==
  \E d \in 1..Len(s) : \E k \in 1..Len(s) :
     /\ DashTerminatedLabels(s, d)
     /\ \/ d + 1 <= Len(s) /\ s[d + 1] = "e" /\ DigitsThenDot(s, d + 2, k)
        \/ /\ d + 2 <= Len(s) /\ s[d + 1] = "p" /\ s[d + 2] = "e"
           /\ DigitsThenDot(s, d + 3, k)

\* the form the pattern has: labels, then "p", then optional "e", digits and a dot
Form_p_then_optional_e(s) ==
  \E d \in 1..Len(s) : \E k \in 1..Len(s) :
     /\ DashTerminatedLabels(s, d)
     /\ d + 1 <= Len(s) /\ s[d + 1] = "p"
     /\ \/ DigitsThenDot(s, d + 2, k)
        \/ d + 2 <= Len(s) /\ s[d + 2] = "e" /\ DigitsThenDot(s, d + 3, k)

\* C8 as stated: the predicate accepts exactly the identifiers that begin with
\* dash-terminated labels and a final label of optional "p", "e", digits, dot;
\* so region-pe1.domain and region-e1.domain are backbone, region-p1.domain and
\* region-a1.domain are not.
C8_OptionalPThenE ==
  pc = "searched" =>
     /\ re_result = Form_optional_p_then_e(subject)
     /\ subject = Chars("region-pe1.domain") => re_result
     /\ subject = Chars("region-e1.domain") => re_result
     /\ subject = Chars("region-p1.domain") => ~re_result
     /\ subject = Chars("region-a1.domain") => ~re_result

\* C8, amended: the final label is "p", then optional "e", then digits, then a
\* dot; so region-pe1.domain and region-p1.domain are backbone, region-e1.domain
\* and region-a1.domain are not.
C8_PThenOptionalE ==
  pc = "searched" =>
     /\ re_result = Form_p_then_optional_e(subject)
     /\ subject = Chars("region-pe1.domain") => re_result
     /\ subject = Chars("region-p1.domain") => re_result
     /\ subject = Chars("region-e1.domain") => ~re_result
     /\ subject = Chars("region-a1.domain") => ~re_result

\* the pattern matched a P device's name, which has no "e"
C8_Witness == pc = "searched" /\ subject = Chars("region-p1.domain") /\ re_result

-----------------------------------------------------------------------------
(* Properties of split_list_by_regex (SpecSplit).                          *)

\* the positions of s whose item the pattern matches (want) or does not
PositionsOf(s, want) == {i \in 1..Len(s) : IsPE(s[i]) = want}

\* the items of s at the positions P, in the order of s
ItemsAt(s, P) ==
  [k \in 1..Cardinality(P) |->
     s[CHOOSE i \in P : Cardinality({j \in P : j <= i}) = k]]

\* C11: split_list_by_regex returns the items the pattern matches and the items
\* it does not match, each in the order of the input, for every list (the empty
\* one and one that repeats an item included); every position of the input is
\* in exactly one of the two.
C11_SplitPartitionsInOrder ==
  pc = "split_done" =>
     /\ matches = ItemsAt(arg_lst, PositionsOf(arg_lst, TRUE))
     /\ non_matches = ItemsAt(arg_lst, PositionsOf(arg_lst, FALSE))
     /\ PositionsOf(arg_lst, TRUE) \cap PositionsOf(arg_lst, FALSE) = {}
     /\ PositionsOf(arg_lst, TRUE) \cup PositionsOf(arg_lst, FALSE) = DOMAIN arg_lst
     /\ Len(matches) + Len(non_matches) = Len(arg_lst)

\* a list that repeats a backbone name around an access name was split
C11_Witness ==
  /\ pc = "split_done"
  /\ arg_lst = <<"region-pe1.domain", "region-a1.domain", "region-pe1.domain">>
  /\ matches = <<"region-pe1.domain", "region-pe1.domain">>
  /\ non_matches = <<"region-a1.domain">>

\* the empty list was split into two empty lists
C11_EmptyWitness ==
  pc = "split_done" /\ arg_lst = <<>> /\ matches = <<>> /\ non_matches = <<>>

-----------------------------------------------------------------------------
(* Child lists of one build (Spec).                                        *)

\* no list of the map names a device twice
NoRepeatedNeighbor(m) ==
  \A h \in DOMAIN m : \A i, j \in 1..Len(m[h]) : i # j => m[h][i] # m[h][j]

\* C20: when no list of the map repeats a device, in every state of one build on
\* an empty registry no child list holds the same object twice.
C20_NoDuplicateChildren ==
  NoRepeatedNeighbor(data) =>
     \A p \in Objects :
        \A i, j \in 1..Len(nodes[p].children) :
           i # j => nodes[p].children[i] # nodes[p].children[j]

\* a build is over in which one object was appended to the child lists of two
\* objects, one of which has two children
C20_Witness ==
  /\ Built /\ NoRepeatedNeighbor(data)
  /\ \E p, q, c \in Objects :
       /\ p # q /\ IsChildOf(c, p) /\ IsChildOf(c, q)
       /\ Len(nodes[p].children) >= 2

-----------------------------------------------------------------------------
(* Properties of _get_level (SpecLevel).                                   *)

\* what _get_level returned is 0 for the root and, for every other object, one
\* more than what it returned for the object's parent
LevelsFollowParents ==
  \A n \in DOMAIN levels :
     /\ n = RootObject => levels[n] = 0
     /\ (n # RootObject /\ nodes[n].parent \in DOMAIN levels)
          => levels[n] = levels[nodes[n].parent] + 1

\* C12: after a build from a backbone root over a map whose listed neighbours are
\* all keys, _get_level terminates on every object of the registry, returns 0
\* for the root, and for every other object one more than for its parent.
C12_GetLevelTerminatesAndCountsParents ==
  /\ []((nodes # <<>> /\ Closed(data) /\ IsPE(root_hostname)) => LevelsFollowParents)
  /\ (pc = "get_level" /\ Closed(data)) ~> (pc = "done")

-----------------------------------------------------------------------------
(* The redundancy rule (SpecBackbone).                                     *)

\* the number of entries of the list of h that name a backbone device
BackboneCount(h) == Cardinality({i \in 1..Len(data[h]) : IsPE(data[h][i])})

\* a backbone device that is a child is the child of a backbone device and has
\* fewer than two backbone neighbours
BackboneChildrenAreNotRedundant ==
  \A p, c \in Objects :
     (IsChildOf(c, p) /\ IsPE(nodes[c].hostname)) =>
        IsPE(nodes[p].hostname) /\ BackboneCount(nodes[c].hostname) < 2

\* the innermost call is in the loop of line 124 and its next neighbour is a
\* backbone device
LoopOnBackboneNeighbor ==
  /\ pc = "find_neighbors" /\ error = "" /\ stack # <<>>
  /\ Top.at = "loop" /\ Top.i <= Len(Top.dependant_neighbors)
  /\ IsPE(Top.dependant_neighbors[Top.i])

\* the innermost call has run the loop of line 124 to its end
LoopDone ==
  /\ pc = "find_neighbors" /\ error = "" /\ stack # <<>>
  /\ Top.at = "loop" /\ Top.i > Len(Top.dependant_neighbors)

\* every backbone neighbour of the backbone object n that has fewer than two
\* backbone neighbours is in the child list of n, or has n in its own child list
\* (it was the parent of n when n came to it)
NonRedundantNeighborsAttached(n) ==
  \A k \in 1..Len(data[nodes[n].hostname]) :
     LET b == data[nodes[n].hostname][k]
     IN (IsPE(b) /\ BackboneCount(b) < 2) =>
          /\ b \in DOMAIN existing_nodes
          /\ IsChildOf(existing_nodes[b], n) \/ IsChildOf(n, existing_nodes[b])

\* C15: on a map whose listed neighbours are all keys, a call of find_neighbors
\* that processes a backbone object has attached, when its loop is over, every
\* backbone neighbour of its list that has fewer than two backbone neighbours,
\* except one that was its parent; the step for such a neighbour leaves the
\* objects alone when the neighbour is the parent and else makes it a child; no
\* backbone device with two or more backbone neighbours, and no backbone
\* neighbour of an access device, is ever in a child list.
C15_RedundancyRule ==
  /\ [](Closed(data) => BackboneChildrenAreNotRedundant)
  /\ []((Closed(data) /\ LoopDone /\ IsPE(nodes[Top.self].hostname))
          => NonRedundantNeighborsAttached(Top.self))
  /\ [][(Closed(data) /\ LoopOnBackboneNeighbor) =>
          LET n == Top.self
              b == Top.dependant_neighbors[Top.i]
          IN IF nodes[n].parent # None /\ get_existing_node(b) = nodes[n].parent
               THEN nodes' = nodes /\ existing_nodes' = existing_nodes
               ELSE /\ b \in DOMAIN existing_nodes'
                    /\ nodes'[existing_nodes'[b]].parent = n
                    /\ nodes'[n].children = Append(nodes[n].children, existing_nodes'[b])]_vars

\* the build from sweden-pe1 is over: its first backbone neighbour has two
\* backbone neighbours and has no object, its second one has one and is its
\* only child
C15_Witness ==
  /\ Built /\ Closed(data) /\ root_hostname = sweden_pe1
  /\ data[sweden_pe1] = <<norway_pe1, denmark_pe2>>
  /\ data[norway_pe1] = <<sweden_pe1, denmark_pe2>>
  /\ data[denmark_pe2] = <<sweden_pe1>>
  /\ ChildNames(RootObject) = <<denmark_pe2>>
  /\ norway_pe1 \notin DOMAIN existing_nodes
  /\ nodes[existing_nodes[denmark_pe2]].children = <<>>

-----------------------------------------------------------------------------
(* Completeness of a build (SpecSymmetric).                                *)

\* the access devices listed by a device of S
AccessNeighbors(S) ==
  UNION {{data[h][i] : i \in {k \in 1..Len(data[h]) : ~IsPE(data[h][k])}} : h \in S}

RECURSIVE AccessReach(_)
\* the access devices a path leads to that starts at a device of S and goes on
\* through access devices only
AccessReach(S) ==
  IF AccessNeighbors(S) \subseteq S THEN S \ {root_hostname}
  ELSE AccessReach(S \cup AccessNeighbors(S))

\* C19: after a build on an empty registry from the backbone device R over a
\* symmetric map whose listed neighbours are all keys, every access device that a
\* path through access devices connects to R has an object in the registry
\* that is in a child list; so has the target, when it is an access device for
\* which find_root returned R.
C19_AccessDevicesOfRootAreBuilt ==
  (Built /\ Closed(data) /\ Symmetric(data) /\ IsPE(root_hostname)) =>
     /\ \A h \in AccessReach({root_hostname}) :
          /\ h \in DOMAIN existing_nodes
          /\ \E p \in Objects : IsChildOf(existing_nodes[h], p)
     /\ ~IsPE(target) =>
          /\ target \in AccessReach({root_hostname})
          /\ get_existing_node(target) # None

\* find_root went from the target over two access devices to the root, and the
\* build from the root has given the target an object, three levels down
C19_Witness ==
  /\ Built /\ Symmetric(data) /\ ~IsPE(target)
  /\ Cardinality(fr_visited) = 2
  /\ target \in DOMAIN existing_nodes
  /\ Ancestor(existing_nodes[target], 3) = RootObject

-----------------------------------------------------------------------------
(* The registry over the builds of a process (SpecProcess).                *)

\* C16: over any sequence of builds in one process, a hostname that has a
\* registry entry keeps the object it is registered with, and no further object
\* is created for it; a build from a root hostname that is registered reuses
\* the registered object.
C16_RegistryEntriesAreKept ==
  [][/\ \A h \in DOMAIN existing_nodes :
          h \in DOMAIN existing_nodes' /\ existing_nodes'[h] = existing_nodes[h]
     /\ \A n \in 1..Len(nodes') :
          n > Len(nodes) => nodes'[n].hostname \notin DOMAIN existing_nodes]_vars

\* the innermost call was made on the parent of the calling object, right after
\* the calling object skipped attaching it
CallOnSkippedParent ==
  /\ pc = "find_neighbors" /\ error = "" /\ Len(stack) >= 2
  /\ Top.at = "enter"
  /\ nodes[stack[Len(stack) - 1].self].parent = Top.self

\* C17: when a dependant neighbour of the current object is its own parent, the
\* step attaches nothing, and the call made on the parent returns at once: no
\* list is fetched for the parent and no object and no registry entry changes.
\* This holds in every top-level call of find_neighbors, one on an object that
\* has a parent from an earlier build included.
C17_ParentIsSkippedAndNotTraversed ==
  /\ [][AddChildOfOwnParent => nodes' = nodes /\ existing_nodes' = existing_nodes]_vars
  /\ [][CallOnSkippedParent =>
          /\ stack' = Pop
          /\ error' = error
          /\ nodes' = nodes /\ existing_nodes' = existing_nodes]_vars

====
